---- MODULE Spec2Model ----
(***************************************************************************)
(* WealthPath Optimizer: the consumption solver generateOptimizationData   *)
(* of the dashboard page, modelled statement by statement.                 *)
(*                                                                         *)
(* Numbers.  The source computes on JavaScript numbers.  The model         *)
(* computes on exact rationals <<numerator, denominator>> in lowest terms  *)
(* with a positive denominator, so every algebraic identity is judged      *)
(* without rounding.  Math.pow with a fractional exponent is modelled on   *)
(* the inputs for which its value is a finite rational; the input space    *)
(* is restricted to those inputs (Representable).                          *)
(*                                                                         *)
(* Loop bound.  The bisection loop of the source runs 50 times; exact      *)
(* halving doubles the denominator of the midpoint at every step, so the   *)
(* model runs the same loop Iterations times.                              *)
(***************************************************************************)
EXTENDS Integers, Sequences, FiniteSets, TLC

VARIABLES pc, params, T, r, rho, sigma, beta, growthRate,
          K, C1, low, high, i, t, data, returned, error

\* A second activation of generateOptimizationData, suspended while the
\* first one runs, and the result of an earlier call kept by its caller.
VARIABLES parked, memo

\* The locals of one activation of generateOptimizationData.
solver == <<pc, params, T, r, rho, sigma, beta, growthRate,
            K, C1, low, high, i, t, data, returned, error>>

\* ApiClient: the position of the method call in progress, the request it
\* handed to fetch, the number of fetch calls it has made, the response, what
\* the caller got, and the last value the caller got from each endpoint.
VARIABLES apiPc, request, fetches, response, outcome, received

\* The tables profiles, estimators and optimization_series.
VARIABLES profiles, estimators, optimization_series, statement, session

\* ParametersControl (localParams, the debounced value and its timer, the
\* effect of lines 94-98 waiting to run, the time localParams has been what
\* it is) and DashboardPage (params, isLoading, optimizationData, the
\* pending timers).
VARIABLES localParams, debouncedValue, debounceTimer, effectDue, stableFor,
          pageParams, isLoading, optimizationData, timers

workers == <<parked, memo>>

api == <<apiPc, request, fetches, response, outcome, received>>

db == <<profiles, estimators, optimization_series, statement, session>>

control == <<localParams, debouncedValue, debounceTimer, effectDue, stableFor>>

page == <<pageParams, isLoading, optimizationData, timers>>

ui == <<control, page>>

\* The state outside the activation that is running.
others == <<workers, api, db, ui>>

vars == <<solver, others>>

(***************************************************************************)
(* Exact rational arithmetic standing for JavaScript number arithmetic.    *)
(***************************************************************************)
Abs(n) == IF n < 0 THEN -n ELSE n

RECURSIVE GCD(_, _)
GCD(a, b) == IF b = 0 THEN a ELSE GCD(b, a % b)

Norm(n, d) ==
    LET g == GCD(Abs(n), d)
    IN  IF g = 0 THEN <<0, 1>> ELSE <<n \div g, d \div g>>

Rat(n) == <<n, 1>>

Zero == <<0, 1>>

One == <<1, 1>>

RNeg(a) == <<-a[1], a[2]>>

RAdd(a, b) ==
    LET g == GCD(a[2], b[2])
    IN  Norm(a[1] * (b[2] \div g) + b[1] * (a[2] \div g), (a[2] \div g) * b[2])

RSub(a, b) == RAdd(a, RNeg(b))

RMul(a, b) ==
    LET g1 == GCD(Abs(a[1]), b[2])
        g2 == GCD(Abs(b[1]), a[2])
        h1 == IF g1 = 0 THEN 1 ELSE g1
        h2 == IF g2 = 0 THEN 1 ELSE g2
    IN  Norm((a[1] \div h1) * (b[1] \div h2), (a[2] \div h2) * (b[2] \div h1))

RInv(a) == IF a[1] > 0 THEN <<a[2], a[1]>> ELSE <<-a[2], -a[1]>>

RDiv(a, b) == RMul(a, RInv(b))

Floor(a) == a[1] \div a[2]

RLess(a, b) ==
    LET fa == Floor(a)
        fb == Floor(b)
        g  == GCD(a[2], b[2])
    IN  IF fa # fb
        THEN fa < fb
        ELSE (a[1] - fa * a[2]) * (b[2] \div g) < (b[1] - fb * b[2]) * (a[2] \div g)

RLeq(a, b) == ~RLess(b, a)

RMax(a, b) == IF RLess(a, b) THEN b ELSE a

RAbs(a) == <<Abs(a[1]), a[2]>>

\* Math.pow(g, n) for an integer n >= 0; Math.pow(x, 0) is 1 for every x.
RECURSIVE PowInt(_, _)
PowInt(g, n) == IF n <= 0 THEN One ELSE RMul(g, PowInt(g, n - 1))

RECURSIVE IntPow(_, _)
IntPow(c, k) == IF k <= 0 THEN 1 ELSE c * IntPow(c, k - 1)

HasRoot(n, k) == \E c \in 0..n : IntPow(c, k) = n

IRoot(n, k) == CHOOSE c \in 0..n : IntPow(c, k) = n

\* Math.pow(x, e) for a rational exponent e = p/q in lowest terms: the
\* non-negative y with y^q = x^p.  PowDefined says that this y is a finite
\* rational (otherwise the source yields an irrational, Infinity or NaN).
PowBase(x, e) == IF e[1] < 0 THEN PowInt(RInv(x), -e[1]) ELSE PowInt(x, e[1])

PowDefined(x, e) ==
    /\ (e[1] < 0 => x[1] # 0)
    /\ x[1] >= 0
    /\ HasRoot(PowBase(x, e)[1], e[2])
    /\ HasRoot(PowBase(x, e)[2], e[2])

Pow(x, e) == <<IRoot(PowBase(x, e)[1], e[2]), IRoot(PowBase(x, e)[2], e[2])>>

(***************************************************************************)
(* Bounds and the input space.                                             *)
(***************************************************************************)
Iterations == 10

\* The rows optimization_series may hold.
MaxSeriesRows == 3

\* The 100 ms timers of the page that may wait at a time.
MaxTimers == 2

Capitals == {Rat(-100), Rat(0), Rat(100)}

Returns == {Rat(-1), <<-1, 2>>, Rat(0)}

DiscountRates == {<<-3, 4>>, Rat(0), Rat(1)}

RiskAversions == {Rat(-1), <<1, 2>>, Rat(1), Rat(2)}

CurrentAges == {30, 45}

LifeExpectancies == {30, 31, 33, 34}

Targets == {Rat(-50), Rat(0), Rat(60), Rat(9000)}

AllParams ==
    [initialCapital : Capitals, annualReturn : Returns,
     discountRate : DiscountRates, riskAversion : RiskAversions,
     lifeExpectancy : LifeExpectancies, currentAge : CurrentAges,
     inheritanceTarget : Targets]

\* Variant of Beta: the discount factor read from the capital field.
BetaFromCapital(p) == RDiv(One, RAdd(One, p.initialCapital))

\* const beta = 1 / (1 + rho)
Beta(p) == RDiv(One, RAdd(One, p.discountRate))

\* beta * (1 + r), the base of the power in line 682
GrowthBase(p) == RMul(Beta(p), RAdd(One, p.annualReturn))

\* Variant of GrowthExponent: the exponent is sigma, not its reciprocal.
GrowthExponentDirect(p) == p.riskAversion

\* 1 / sigma, the exponent of the power in line 682
GrowthExponent(p) == RDiv(One, p.riskAversion)

\* const growthRate = Math.pow(beta * (1 + r), 1 / sigma)
GrowthRate(p) == Pow(GrowthBase(p), GrowthExponent(p))

\* The inputs on which lines 681-682 yield finite rationals.
Representable(p) ==
    /\ RAdd(One, p.discountRate) # Zero
    /\ p.riskAversion # Zero
    /\ PowDefined(GrowthBase(p), GrowthExponent(p))

ParamSpace == {p \in AllParams : Representable(p)}

defaultParams ==
    [initialCapital |-> Rat(100), annualReturn |-> Rat(0),
     discountRate |-> Rat(0), riskAversion |-> Rat(2),
     lifeExpectancy |-> 85, currentAge |-> 35,
     inheritanceTarget |-> Rat(60)]

(***************************************************************************)
(* The solver.                                                             *)
(***************************************************************************)
LowFraction == <<1, 100>>

HighFraction == <<15, 100>>

StartFraction == <<4, 100>>

\* Variant of NextCapital: capital is clamped to zero after every update.
NextCapitalClamped(k, c1, g, n, ret) ==
    RMax(Zero, RMul(RSub(k, RMul(c1, PowInt(g, n))), RAdd(One, ret)))

\* Variant of NextCapital: a period never consumes more than the capital.
NextCapitalCapped(k, c1, g, n, ret) ==
    LET c == RMul(c1, PowInt(g, n))
    IN  RMul(RSub(k, IF RLess(k, c) THEN RMax(Zero, k) ELSE c), RAdd(One, ret))

\* const C = C1 * Math.pow(growthRate, t);  K = (K - C) * (1 + r)
NextCapital(k, c1, g, n, ret) ==
    RMul(RSub(k, RMul(c1, PowInt(g, n))), RAdd(One, ret))

\* K after the loop `for (let t = 0; t < n; t++)` started at K = k0.
RECURSIVE Simulate(_, _, _, _, _)
Simulate(k0, c1, g, ret, n) ==
    IF n <= 0 THEN k0
    ELSE NextCapital(Simulate(k0, c1, g, ret, n - 1), c1, g, n - 1, ret)

\* The horizon of line 675.
HorizonOf(p) == p.lifeExpectancy - p.currentAge

\* The element of a one-element set: its argument is evaluated once.
TheValue(S) == CHOOSE x \in S : TRUE

\* One iteration of the loop of lines 693-707 on the bracket b = <<low,
\* high, C1>>.
BisectOnce(p, b) ==
    LET c == RDiv(RAdd(b[1], b[2]), Rat(2))
        k == Simulate(p.initialCapital, c, GrowthRate(p), p.annualReturn,
                      HorizonOf(p))
    IN  IF RLess(p.inheritanceTarget, k) THEN <<c, b[2], c>>
                                         ELSE <<b[1], c, c>>

\* <<low, high, C1>> after n iterations of the loop of lines 693-707.
RECURSIVE Bisection(_, _)
Bisection(p, n) ==
    IF n <= 0
    THEN <<RMul(p.initialCapital, LowFraction),
           RMul(p.initialCapital, HighFraction),
           RMul(p.initialCapital, StartFraction)>>
    ELSE TheValue({BisectOnce(p, b) : b \in {Bisection(p, n - 1)}})

\* The entries 0..n of the array built by lines 710-721 for the initial
\* consumption c1.
RECURSIVE SeriesUpTo(_, _, _)
SeriesUpTo(p, c1, n) ==
    IF n < 0 THEN <<>>
    ELSE Append(SeriesUpTo(p, c1, n - 1),
                [period |-> n,
                 capital |-> RMax(Zero, Simulate(p.initialCapital, c1,
                                                 GrowthRate(p),
                                                 p.annualReturn, n)),
                 consumption |-> RMul(c1, PowInt(GrowthRate(p), n))])

\* generateOptimizationData(p) as a value: the C1 the loop ends with and
\* the array returned.
Solve(p) ==
    TheValue({[C1 |-> b[3], data |-> SeriesUpTo(p, b[3], HorizonOf(p))] :
                 b \in {Bisection(p, Iterations)}})

\* The locals of an activation that has not been called: the values Init
\* gives them.
IdleFrame ==
    [pc |-> "idle", params |-> defaultParams, T |-> 0, r |-> Zero,
     rho |-> Zero, sigma |-> One, beta |-> One, growthRate |-> One,
     K |-> Zero, C1 |-> Zero, low |-> Zero, high |-> Zero, i |-> 0, t |-> 0,
     data |-> <<>>, returned |-> FALSE, error |-> "none"]

\* No earlier call has been kept.
NoCall == [params |-> defaultParams, C1 |-> Zero, data |-> <<>>, kept |-> FALSE]

\* ApiClient before any call: nothing requested, nothing received.
NoRequest == [url |-> <<>>, endpoint |-> "", method |-> "",
              contentType |-> "", body |-> <<>>, args |-> defaultParams]

NoResponse == [ok |-> FALSE, status |-> 0, parses |-> FALSE, json |-> <<>>]

NoOutcome == [kind |-> "none", message |-> <<>>, value |-> <<>>]

NothingReceived == [args |-> defaultParams, body |-> <<>>, value |-> <<>>,
                    any |-> FALSE]

ApiInit ==
    /\ apiPc = "idle"
    /\ request = NoRequest
    /\ fetches = 0
    /\ response = NoResponse
    /\ outcome = NoOutcome
    /\ received = [optimize |-> NothingReceived, preview |-> NothingReceived]

\* The tables as the schema creates them: empty.
\* No statement on optimization_series has run yet.
NoStatement == [rows |-> <<>>, doNothing |-> FALSE, result |-> "none"]

\* No authenticated request has been made: the statement runs as the owner
\* of the tables.
NoSession == [uid |-> 0, op |-> "none", returned |-> {}]

DbInit ==
    /\ profiles = {}
    /\ estimators = {}
    /\ optimization_series = {}
    /\ statement = NoStatement
    /\ session = NoSession

\* useDebounce(localParams, 300) and setTimeout(..., 100), in milliseconds.
DebounceDelay == 300

TimerDelay == 100

\* No timer is waiting.
NoTimer == [pending |-> FALSE, value |-> defaultParams, left |-> 0]

\* The array generateOptimizationData(p) returns, held as the call that
\* made it; SeriesOf gives its entries.
Computed(p) == [from |-> p]

SeriesOf(d) == Solve(d.from).data

\* The page as mounted: useState(defaultParams), useState(false),
\* useState(() => generateOptimizationData(defaultParams)); the control's
\* useState(params), and the debounce effect of the first render, which has
\* started a timer for the initial value.
UiInit ==
    /\ pageParams = defaultParams
    /\ isLoading = FALSE
    /\ optimizationData = Computed(defaultParams)
    /\ timers = <<>>
    /\ localParams = defaultParams
    /\ debouncedValue = defaultParams
    /\ debounceTimer = [pending |-> TRUE, value |-> defaultParams,
                        left |-> DebounceDelay]
    /\ effectDue = FALSE
    /\ stableFor = 0

Init ==
    /\ pc = "idle"
    /\ params = defaultParams
    /\ T = 0
    /\ r = Zero
    /\ rho = Zero
    /\ sigma = One
    /\ beta = One
    /\ growthRate = One
    /\ K = Zero
    /\ C1 = Zero
    /\ low = Zero
    /\ high = Zero
    /\ i = 0
    /\ t = 0
    /\ data = <<>>
    /\ returned = FALSE
    /\ error = "none"
    /\ parked = IdleFrame
    /\ memo = NoCall
    /\ ApiInit
    /\ DbInit
    /\ UiInit

\* Variant of Call: the search starts from the initial consumption of the
\* call the caller kept, when there is one.
CallWarmStart(p) ==
    /\ pc = "idle"
    /\ pc' = "bisect"
    /\ params' = p
    /\ T' = p.lifeExpectancy - p.currentAge
    /\ r' = p.annualReturn
    /\ rho' = p.discountRate
    /\ sigma' = p.riskAversion
    /\ beta' = Beta(p)
    /\ growthRate' = GrowthRate(p)
    /\ K' = p.initialCapital
    /\ C1' = RMul(p.initialCapital, StartFraction)
    /\ low' = IF memo.kept THEN memo.C1 ELSE RMul(p.initialCapital, LowFraction)
    /\ high' = RMul(p.initialCapital, HighFraction)
    /\ i' = 0
    /\ t' = 0
    /\ data' = <<>>
    /\ returned' = FALSE
    /\ UNCHANGED error
    /\ UNCHANGED others

\* Lines 674-691: entry, derived rates and the initial bracket.
Call(p) ==
    /\ pc = "idle"
    /\ pc' = "bisect"
    /\ params' = p
    /\ T' = p.lifeExpectancy - p.currentAge
    /\ r' = p.annualReturn
    /\ rho' = p.discountRate
    /\ sigma' = p.riskAversion
    /\ beta' = Beta(p)
    /\ growthRate' = GrowthRate(p)
    /\ K' = p.initialCapital
    /\ C1' = RMul(p.initialCapital, StartFraction)
    /\ low' = RMul(p.initialCapital, LowFraction)
    /\ high' = RMul(p.initialCapital, HighFraction)
    /\ i' = 0
    /\ t' = 0
    /\ data' = <<>>
    /\ returned' = FALSE
    /\ UNCHANGED error
    /\ UNCHANGED others

\* Lines 693-695: one more iteration of the bisection loop begins.
BisectStep ==
    /\ pc = "bisect"
    /\ i < Iterations
    /\ C1' = RDiv(RAdd(low, high), Rat(2))
    /\ K' = params.initialCapital
    /\ t' = 0
    /\ pc' = "simulate"
    /\ UNCHANGED <<params, T, r, rho, sigma, beta, growthRate, low, high, i,
                   data, returned, error>>
    /\ UNCHANGED others

\* Lines 697-700: one capital update of the inner loop.
SimStep ==
    /\ pc = "simulate"
    /\ t < T
    /\ K' = NextCapital(K, C1, growthRate, t, r)
    /\ t' = t + 1
    /\ UNCHANGED <<pc, params, T, r, rho, sigma, beta, growthRate, C1, low,
                   high, i, data, returned, error>>
    /\ UNCHANGED others

\* Variant of Decide: the capital is compared with zero, not with the target.
DecideAgainstZero ==
    /\ pc = "simulate"
    /\ ~(t < T)
    /\ IF RLess(Zero, K)
       THEN low' = C1 /\ UNCHANGED high
       ELSE high' = C1 /\ UNCHANGED low
    /\ i' = i + 1
    /\ pc' = "bisect"
    /\ UNCHANGED <<params, T, r, rho, sigma, beta, growthRate, K, C1, t,
                   data, returned, error>>
    /\ UNCHANGED others

\* Variant of Decide: the comparison moves the other end of the bracket.
DecideMovesOtherEnd ==
    /\ pc = "simulate"
    /\ ~(t < T)
    /\ IF RLess(params.inheritanceTarget, K)
       THEN high' = C1 /\ UNCHANGED low
       ELSE low' = C1 /\ UNCHANGED high
    /\ i' = i + 1
    /\ pc' = "bisect"
    /\ UNCHANGED <<params, T, r, rho, sigma, beta, growthRate, K, C1, t,
                   data, returned, error>>
    /\ UNCHANGED others

\* Variant of Decide: the loop counter is not advanced.
DecideWithoutCounting ==
    /\ pc = "simulate"
    /\ ~(t < T)
    /\ IF RLess(params.inheritanceTarget, K)
       THEN low' = C1 /\ UNCHANGED high
       ELSE high' = C1 /\ UNCHANGED low
    /\ pc' = "bisect"
    /\ UNCHANGED <<params, T, r, rho, sigma, beta, growthRate, K, C1, t, i,
                   data, returned, error>>
    /\ UNCHANGED others

\* Lines 702-706: the inner loop is over; move one end of the bracket.
Decide ==
    /\ pc = "simulate"
    /\ ~(t < T)
    /\ IF RLess(params.inheritanceTarget, K)
       THEN low' = C1 /\ UNCHANGED high
       ELSE high' = C1 /\ UNCHANGED low
    /\ i' = i + 1
    /\ pc' = "bisect"
    /\ UNCHANGED <<params, T, r, rho, sigma, beta, growthRate, K, C1, t,
                   data, returned, error>>
    /\ UNCHANGED others

\* Variant of StartSeries: the series is built from the 4% starting value.
StartSeriesFromStartValue ==
    /\ pc = "bisect"
    /\ ~(i < Iterations)
    /\ data' = <<>>
    /\ K' = params.initialCapital
    /\ C1' = RMul(params.initialCapital, StartFraction)
    /\ t' = 0
    /\ pc' = "series"
    /\ UNCHANGED <<params, T, r, rho, sigma, beta, growthRate, low, high,
                   i, returned, error>>
    /\ UNCHANGED others

\* Lines 709-711: the bisection loop is over; the series starts.
StartSeries ==
    /\ pc = "bisect"
    /\ ~(i < Iterations)
    /\ data' = <<>>
    /\ K' = params.initialCapital
    /\ t' = 0
    /\ pc' = "series"
    /\ UNCHANGED <<params, T, r, rho, sigma, beta, growthRate, C1, low, high,
                   i, returned, error>>
    /\ UNCHANGED others

\* Lines 713-721: one entry of the series.
SeriesStep ==
    /\ pc = "series"
    /\ t <= T
    /\ LET consumption == RMul(C1, PowInt(growthRate, t))
       IN  /\ data' = Append(data, [period |-> t,
                                    capital |-> RMax(Zero, K),
                                    consumption |-> consumption])
           /\ K' = RMul(RSub(K, consumption), RAdd(One, r))
    /\ t' = t + 1
    /\ UNCHANGED <<pc, params, T, r, rho, sigma, beta, growthRate, C1, low,
                   high, i, returned, error>>
    /\ UNCHANGED others

\* Variant of Return: the series loop ends at t = T, not after it.
ReturnEarly ==
    /\ pc = "series"
    /\ ~(t < T)
    /\ pc' = "done"
    /\ returned' = TRUE
    /\ UNCHANGED <<params, T, r, rho, sigma, beta, growthRate, K, C1, low,
                   high, i, t, data, error>>
    /\ UNCHANGED others

\* Line 723: return data.
Return ==
    /\ pc = "series"
    /\ ~(t <= T)
    /\ pc' = "done"
    /\ returned' = TRUE
    /\ UNCHANGED <<params, T, r, rho, sigma, beta, growthRate, K, C1, low,
                   high, i, t, data, error>>
    /\ UNCHANGED others

\* After the return the call's locals are gone; the page may call again.
Discard ==
    /\ pc = "done"
    /\ pc' = "idle"
    /\ params' = defaultParams
    /\ T' = 0
    /\ r' = Zero
    /\ rho' = Zero
    /\ sigma' = One
    /\ beta' = One
    /\ growthRate' = One
    /\ K' = Zero
    /\ C1' = Zero
    /\ low' = Zero
    /\ high' = Zero
    /\ i' = 0
    /\ t' = 0
    /\ data' = <<>>
    /\ returned' = FALSE
    /\ UNCHANGED error
    /\ UNCHANGED others

\* The locals of the running activation, as a value.
CurrentFrame ==
    [pc |-> pc, params |-> params, T |-> T, r |-> r, rho |-> rho,
     sigma |-> sigma, beta |-> beta, growthRate |-> growthRate, K |-> K,
     C1 |-> C1, low |-> low, high |-> high, i |-> i, t |-> t, data |-> data,
     returned |-> returned, error |-> error]

\* Variant of Switch: K lives outside the function, so the activation that
\* resumes finds the capital the other one left.
SwitchSharingCapital ==
    /\ parked # CurrentFrame
    /\ parked' = CurrentFrame
    /\ pc' = parked.pc
    /\ params' = parked.params
    /\ T' = parked.T
    /\ r' = parked.r
    /\ rho' = parked.rho
    /\ sigma' = parked.sigma
    /\ beta' = parked.beta
    /\ growthRate' = parked.growthRate
    /\ C1' = parked.C1
    /\ low' = parked.low
    /\ high' = parked.high
    /\ i' = parked.i
    /\ t' = parked.t
    /\ data' = parked.data
    /\ returned' = parked.returned
    /\ error' = parked.error
    /\ UNCHANGED <<K, memo, api, db, ui>>

\* Two requests served at once: the running activation is suspended between
\* two of its steps and the other one resumes.  Every variable of lines
\* 675-720 is declared inside the function, so each activation has its own.
Switch ==
    /\ parked # CurrentFrame
    /\ parked' = CurrentFrame
    /\ pc' = parked.pc
    /\ params' = parked.params
    /\ T' = parked.T
    /\ r' = parked.r
    /\ rho' = parked.rho
    /\ sigma' = parked.sigma
    /\ beta' = parked.beta
    /\ growthRate' = parked.growthRate
    /\ K' = parked.K
    /\ C1' = parked.C1
    /\ low' = parked.low
    /\ high' = parked.high
    /\ i' = parked.i
    /\ t' = parked.t
    /\ data' = parked.data
    /\ returned' = parked.returned
    /\ error' = parked.error
    /\ UNCHANGED <<memo, api, db, ui>>

\* The caller keeps the arguments and the value of a call that has returned.
Remember ==
    /\ pc = "done"
    /\ memo' = [params |-> params, C1 |-> C1, data |-> data, kept |-> TRUE]
    /\ memo' # memo
    /\ UNCHANGED <<solver, parked, api, db, ui>>

Next ==
    \/ \E p \in ParamSpace : Call(p)
    \/ BisectStep
    \/ SimStep
    \/ Decide
    \/ StartSeries
    \/ SeriesStep
    \/ Return
    \/ Discard

Spec == Init /\ [][Next]_vars

(***************************************************************************)
(* Two requests at once, and a caller that keeps an earlier result.        *)
(***************************************************************************)
WorkerParams ==
    {[defaultParams EXCEPT !.currentAge = 30, !.lifeExpectancy = 33],
     [defaultParams EXCEPT !.currentAge = 30, !.lifeExpectancy = 31,
                           !.annualReturn = <<-1, 2>>, !.riskAversion = One,
                           !.inheritanceTarget = Zero],
     [defaultParams EXCEPT !.currentAge = 30, !.lifeExpectancy = 33,
                           !.discountRate = One, !.riskAversion = One,
                           !.inheritanceTarget = Zero]}

WorkersNext ==
    \/ \E p \in WorkerParams : Call(p)
    \/ BisectStep
    \/ SimStep
    \/ Decide
    \/ StartSeries
    \/ SeriesStep
    \/ Return
    \/ Discard
    \/ Switch
    \/ Remember

SpecWorkers == Init /\ [][WorkersNext]_vars

TypeOK ==
    /\ pc \in {"idle", "bisect", "simulate", "series", "done"}
    /\ params \in AllParams \cup {defaultParams}
    /\ i \in 0..Iterations
    /\ returned \in BOOLEAN
    /\ error = "none"

(***************************************************************************)
(* Vocabulary of the properties.                                           *)
(***************************************************************************)
\* The domain of section 4.1: none of the six rejection conditions holds.
Valid(p) ==
    /\ RLeq(Zero, p.initialCapital)
    /\ RLeq(Zero, p.inheritanceTarget)
    /\ p.lifeExpectancy > p.currentAge
    /\ RLess(Zero, p.riskAversion)
    /\ RLess(Rat(-1), p.annualReturn)
    /\ RLess(Rat(-1), p.discountRate)

Target == params.inheritanceTarget

\* Terminal capital of the current call for the candidate c.
Terminal(c) == Simulate(params.initialCapital, c, growthRate, r, T)

\* Some initial consumption between nothing and the whole capital reaches
\* the target (terminal capital is linear and decreasing in the candidate).
Feasible ==
    /\ Valid(params)
    /\ RLeq(Terminal(params.initialCapital), Target)
    /\ RLeq(Target, Terminal(Zero))

\* The bracket the call starts from, lines 690-691.
InitialLow == RMul(params.initialCapital, LowFraction)

InitialHigh == RMul(params.initialCapital, HighFraction)

Bracketed(lo, hi) == RLeq(Target, Terminal(lo)) /\ RLeq(Terminal(hi), Target)

\* The tolerance is left to configuration by the design and the source
\* configures none; the model takes one currency unit, 1% of the capital
\* unit of the input space.
Tolerance == Rat(1)

\* Capital reached after T periods with the initial consumption in C1.
FinalCapital == Terminal(C1)

Converged == RLess(RAbs(RSub(FinalCapital, Target)), Tolerance)

\* Every run of the model that starts from a valid bracket ends within the
\* tolerance: Iterations halvings are enough for the input space.
BracketedRunsConverge ==
    (pc = "done" /\ Valid(params) /\ Bracketed(InitialLow, InitialHigh))
        => Converged

\* C1: for every feasible input, once the solver has completed, the capital
\* obtained by simulating T periods with the returned initial consumption
\* differs from the inheritance target by less than the tolerance.
C1_Convergence == (pc = "done" /\ Feasible) => Converged

\* C3: whenever one of the six rejection conditions holds the call ends in
\* InvalidParameter; otherwise it proceeds with the horizon
\* life_expectancy - current_age.
C3_ParameterValidation ==
    /\ (pc = "done" /\ ~Valid(params)) => error = "InvalidParameter"
    /\ (pc # "idle" /\ Valid(params))
           => T = params.lifeExpectancy - params.currentAge

\* C4: for an input outside the domain no bisection step and no capital
\* update ever runs and neither a result nor a partial series is produced.
C4_RejectedBeforeSimulation ==
    (pc # "idle" /\ ~Valid(params))
        => (pc = "bisect" /\ i = 0 /\ ~returned /\ data = <<>>)

\* No candidate at all reaches the target, so no widening of the bracket
\* can make its low end valid.
TargetOutOfReach == Valid(params) /\ RLess(Terminal(Zero), Target)

\* C5: when no valid bracket can be found the solver ends in
\* InfeasibleTarget and returns neither an initial consumption nor a series.
C5_InfeasibleTarget ==
    (pc = "done" /\ TargetOutOfReach)
        => (error = "InfeasibleTarget" /\ ~returned /\ data = <<>>)

\* The candidates the monotonicity is judged on: the ends of the current
\* bracket, the current midpoint, nothing and the whole capital.
Candidates == {low, high, C1, Zero, params.initialCapital}

\* C2: for a fixed initial capital, r > -1, growth rate g > 0 and horizon
\* T >= 1 the terminal capital is strictly decreasing in the initial
\* consumption.
C2_Monotonicity ==
    (pc = "bisect" /\ RLess(Rat(-1), r) /\ RLess(Zero, growthRate) /\ T >= 1)
        => \A a, b \in Candidates :
               RLess(a, b) => RLess(Terminal(b), Terminal(a))

C2_Witness ==
    /\ pc = "bisect"
    /\ i > 0
    /\ Valid(params)
    /\ T >= 3
    /\ RLess(Zero, low)
    /\ RLess(low, high)
    /\ RLess(Terminal(high), Zero)

\* C6: a bisection step is first taken only on a bracket with
\* terminal(low) >= target >= terminal(high).
C6_BracketValidBeforeBisection ==
    (pc = "simulate" /\ i = 0 /\ Valid(params)) => Bracketed(low, high)

\* C7: no result is returned whose capital is negative at some period
\* before the horizon ends.
C7_NoNegativeTrajectory ==
    (pc = "done" /\ returned /\ Valid(params))
        => \A n \in 0..(T - 1) :
               RLeq(Zero, Simulate(params.initialCapital, C1, growthRate, r, n))

\* sum over s < n of g^s * (1+r)^(n-s): what one unit of initial consumption
\* has cost after n unclamped updates.
RECURSIVE Drawdown(_, _, _)
Drawdown(g, ret, n) ==
    IF n <= 0 THEN Zero
    ELSE RMul(RAdd(Drawdown(g, ret, n - 1), PowInt(g, n - 1)), RAdd(One, ret))

\* K0 * (1+r)^n - c * Drawdown: the capital after n updates of the
\* recurrence K := (K - c * g^t) * (1+r), t = 0..n-1, none of them clamped.
Unclamped(c, n) ==
    RSub(RMul(params.initialCapital, PowInt(RAdd(One, r), n)),
         RMul(c, Drawdown(growthRate, r, n)))

Horizon == IF T > 0 THEN T ELSE 0

\* C8: the simulator starts at the initial capital and applies the update
\* K := (K - C1 * g^t) * (1+r) for t = 0..T-1 in order, without clamping; the
\* capital it hands to the comparison is the one after exactly T updates.
C8_TerminalCapitalSimulation ==
    /\ pc = "simulate" => (t <= Horizon /\ K = Unclamped(C1, t))
    /\ (pc = "bisect" /\ i > 0) => (t = Horizon /\ K = Unclamped(C1, Horizon))

C8_Witness ==
    /\ pc = "simulate"
    /\ Valid(params)
    /\ t >= 2
    /\ t < T
    /\ RLess(K, Zero)

PositiveRates(p) ==
    /\ RLess(Zero, p.riskAversion)
    /\ RLess(Rat(-1), p.annualReturn)
    /\ RLess(Rat(-1), p.discountRate)

\* C9: for valid rho, r, sigma: beta * (1 + rho) = 1 and, writing sigma as
\* the fraction a/b, growth_rate^a = (beta * (1+r))^b with growth_rate > 0;
\* hence growth_rate = beta * (1+r) when sigma = 1 and growth_rate = 1 when
\* r = rho.
C9_GrowthRateIdentity ==
    (pc # "idle" /\ PositiveRates(params))
        => /\ RMul(beta, RAdd(One, rho)) = One
           /\ RLess(Zero, growthRate)
           /\ PowInt(growthRate, sigma[1])
                  = PowInt(RMul(beta, RAdd(One, r)), sigma[2])
           /\ sigma = One => growthRate = RMul(beta, RAdd(One, r))
           /\ r = rho => growthRate = One

C9_Witness ==
    /\ pc = "bisect"
    /\ PositiveRates(params)
    /\ sigma = Rat(2)
    /\ r # rho
    /\ growthRate # One
    /\ growthRate # RMul(beta, RAdd(One, r))

SameRates(p, q) ==
    /\ p.annualReturn = q.annualReturn
    /\ p.discountRate = q.discountRate
    /\ p.riskAversion = q.riskAversion

\* The inputs that keep the three rates of p and take any capital, target
\* and ages of the input space.
OtherWealth(p) ==
    {q \in [initialCapital : Capitals, annualReturn : {p.annualReturn},
            discountRate : {p.discountRate}, riskAversion : {p.riskAversion},
            lifeExpectancy : LifeExpectancies, currentAge : CurrentAges,
            inheritanceTarget : Targets] : Representable(q)}

\* C10: a call that agrees with the current one on annual_return,
\* discount_rate and risk_aversion computes the same beta and growth_rate,
\* whatever its capital, target and ages are.
C10_RatesIndependentOfWealth ==
    (pc = "bisect" /\ i = 0)
        => \A q \in OtherWealth(params) :
               SameRates(params, q) /\ Beta(q) = beta /\ GrowthRate(q) = growthRate

C10_Witness ==
    /\ pc = "bisect"
    /\ i = 0
    /\ growthRate # One
    /\ \E q \in OtherWealth(params) :
           /\ q.initialCapital # params.initialCapital
           /\ q.inheritanceTarget # params.inheritanceTarget
           /\ q.currentAge # params.currentAge
           /\ q.lifeExpectancy # params.lifeExpectancy

\* C11: for every valid input the returned series has exactly horizon + 1
\* entries and its entry number k (counted from 0) has period k.
C11_SeriesShape ==
    (pc = "done" /\ returned /\ Valid(params))
        => /\ Len(data) = params.lifeExpectancy - params.currentAge + 1
           /\ \A k \in 1..Len(data) : data[k].period = k - 1

C11_Witness ==
    /\ pc = "done"
    /\ returned
    /\ Valid(params)
    /\ Len(data) = 5
    /\ data[5].period = 4

\* max(T + 1, 0): the number of steps of the series loop.
SeriesSteps == IF T + 1 > 0 THEN T + 1 ELSE 0

Running == pc \in {"bisect", "simulate", "series"}

\* The steps a running call is from its return: what is left of the
\* bisection loop (a step is the midpoint, max(T, 0) capital updates and the
\* comparison), then the series loop and the return.
StepsLeft ==
    CASE pc = "bisect" ->
             (Iterations - i) * (Horizon + 2) + SeriesSteps + 2
      [] pc = "simulate" ->
             (Iterations - i - 1) * (Horizon + 2) + (Horizon - t) + 1
                 + SeriesSteps + 2
      [] pc = "series" -> SeriesSteps - t + 1
      [] OTHER -> 0

\* C14: for every input, horizon <= 0 and capital 0 included, the solve
\* terminates: every step of a running call brings it one step nearer to
\* its return, which is Iterations * (max(T, 0) + 2) + max(T + 1, 0) + 2
\* steps from the call; the bisection loop runs Iterations steps, each of
\* them exactly max(T, 0) capital updates, and the series loop then runs
\* max(T + 1, 0) steps.
C14_Termination ==
    /\ [](Running => StepsLeft > 0)
    /\ [][Running => StepsLeft' = StepsLeft - 1]_vars
    /\ [][(pc = "simulate" /\ pc' = "simulate") => t' = t + 1]_vars
    /\ [][(pc = "simulate" /\ pc' = "bisect")
              => (t = Horizon /\ i' = i + 1 /\ i < Iterations)]_vars
    /\ [][(pc = "bisect" /\ pc' = "simulate") => (t' = 0 /\ i' = i)]_vars
    /\ [][(pc = "bisect" /\ pc' = "series") => (i = Iterations /\ t' = 0)]_vars
    /\ [][(pc = "series" /\ pc' = "series") => t' = t + 1]_vars
    /\ [][(pc = "series" /\ pc' = "done") => t = SeriesSteps]_vars

\* A call with a negative horizon and no capital has returned.
C14_Witness ==
    /\ pc = "done"
    /\ T < 0
    /\ params.initialCapital = Zero
    /\ i = Iterations
    /\ t = 0

\* The running call has the arguments of the call the caller kept.
RepeatsKeptCall == pc = "done" /\ memo.kept /\ memo.params = params

\* C12: a call with the parameters of an earlier call returns what that
\* call returned, the same initial consumption and the same series, whatever
\* calls were made in between.
C12_Idempotence == RepeatsKeptCall => (memo.C1 = C1 /\ memo.data = data)

\* The kept call was followed by a call with other parameters, suspended
\* here, before the running call repeated it.
C12_Witness ==
    /\ RepeatsKeptCall
    /\ T >= 3
    /\ RLess(Zero, C1)
    /\ parked.pc = "done"
    /\ parked.params # params

\* C13: interleaved with another computation in any order, a computation
\* ends with the result it has when run alone, and the parameter object is
\* the one it was given.
C13_RequestIndependence ==
    /\ pc = "done" => (C1 = Solve(params).C1 /\ data = Solve(params).data)
    /\ pc # "idle" => /\ T = HorizonOf(params)
                      /\ r = params.annualReturn
                      /\ rho = params.discountRate
                      /\ sigma = params.riskAversion
                      /\ params \in WorkerParams

\* Two computations with different parameters, both begun before either
\* ended, have both ended.
C13_Witness ==
    /\ pc = "done"
    /\ parked.pc = "done"
    /\ parked.params # params
    /\ T >= 3
    /\ RLess(low, C1)
\* Some period of the series consumes nothing or less.
NonPositivePath == \E k \in 1..Len(data) : RLeq(data[k].consumption, Zero)

\* C15: when some period of the solved path has consumption <= 0, series
\* construction ends in NonPositiveConsumption and no series is returned.
C15_NonPositiveConsumption ==
    (pc = "done" /\ Valid(params) /\ NonPositivePath)
        => (error = "NonPositiveConsumption" /\ ~returned)

\* Variant of Utility: the power formula for every sigma.
UtilityPowerOnly(c, s) ==
    [formula |-> "power", of |-> c, exponent |-> RSub(One, s),
     divisor |-> RSub(One, s)]

\* The utility of one period as the design of the series builder gives it:
\* ln(C) for sigma = 1, C^(1-sigma) / (1-sigma) otherwise.  The value is kept
\* as the formula evaluated, its argument, exponent and divisor.
Utility(c, s) ==
    IF s = One
    THEN [formula |-> "ln", of |-> c, exponent |-> One, divisor |-> One]
    ELSE [formula |-> "power", of |-> c, exponent |-> RSub(One, s),
          divisor |-> RSub(One, s)]

\* The utilities of the periods of the series.
UtilitySeries == [k \in 1..Len(data) |-> Utility(data[k].consumption, sigma)]

\* ln and a power with a non-zero divisor are finite on a positive argument.
FiniteUtility(u) == RLess(Zero, u.of) /\ u.divisor # Zero

\* C16: the utility of a period is ln(C_t) exactly when risk_aversion = 1
\* and the power formula for every other valid sigma; the power formula is
\* never evaluated with the divisor 1 - sigma = 0, and every term of the
\* total utility is finite at sigma = 1.
C16_UtilityBranch ==
    (pc = "done" /\ Valid(params) /\ ~NonPositivePath)
        => \A k \in 1..Len(data) :
               /\ (UtilitySeries[k].formula = "ln") <=> (sigma = One)
               /\ UtilitySeries[k].formula = "power"
                      => /\ UtilitySeries[k].divisor = RSub(One, sigma)
                         /\ UtilitySeries[k].divisor # Zero
               /\ UtilitySeries[k].of = RMul(C1, PowInt(growthRate, k - 1))
               /\ FiniteUtility(UtilitySeries[k])

C16_Witness ==
    /\ pc = "done"
    /\ Valid(params)
    /\ sigma = One
    /\ Len(data) = 5
    /\ ~NonPositivePath
    /\ UtilitySeries[5].formula = "ln"
    /\ growthRate # One
\* An iteration of the bisection loop begins / ends in this step.
IterationBegins == pc = "bisect" /\ pc' = "simulate"

IterationEnds == pc = "simulate" /\ pc' = "bisect"

C22_SeriesValues ==
    (pc = "done" /\ returned /\ Valid(params))
        => /\ data[1].capital = params.initialCapital
           /\ \A n \in 0..(T - 1) :
                  data[n + 2].capital =
                      RMul(RSub(Unclamped(C1, n), RMul(C1, PowInt(growthRate, n))),
                           RAdd(One, r))
           /\ \A n \in 0..T :
                  data[n + 1].consumption = RMul(C1, PowInt(growthRate, n))
           /\ data[T + 1].capital = Terminal(C1)
\* The root lies between lo and hi: terminal(lo) > target >= terminal(hi).
RootBetween(lo, hi) == RLess(Target, Terminal(lo)) /\ RLeq(Terminal(hi), Target)

\* C23: a call that starts with terminal(low) > target and terminal(high) <=
\* target has terminal(low) > target and terminal(high) <= target after
\* every iteration of the bisection.
C23_RootStaysBracketed ==
    (pc # "idle" /\ RootBetween(InitialLow, InitialHigh))
        => RootBetween(low, high)

C23_Witness ==
    /\ pc = "bisect"
    /\ i = Iterations
    /\ Valid(params)
    /\ T >= 3
    /\ RootBetween(InitialLow, InitialHigh)
    /\ RLess(InitialLow, low)
    /\ RLess(high, InitialHigh)
\* C24: for every input with initial_capital >= 0, whatever its target,
\* rates and horizon, the C1 the series is built from is the last midpoint
\* evaluated (nothing but the start of an iteration changes C1 during a
\* call, and the first consumption of the series is C1), equals one end of
\* the final bracket and lies in 0.01 * K0 .. 0.15 * K0.
C24_InitialConsumptionRange ==
    /\ []((pc \in {"series", "done"} /\ RLeq(Zero, params.initialCapital))
            => /\ C1 \in {low, high}
               /\ RLeq(InitialLow, C1)
               /\ RLeq(C1, InitialHigh)
               /\ \A n \in 1..Len(data) :
                      data[n].consumption = RMul(C1, PowInt(growthRate, n - 1)))
    /\ [][(pc \in {"bisect", "simulate", "series"} /\ ~IterationBegins)
            => C1' = C1]_vars

C24_Witness ==
    /\ pc = "done"
    /\ returned
    /\ RLess(Zero, params.initialCapital)
    /\ RLess(params.inheritanceTarget, Zero)
    /\ params.annualReturn = Rat(-1)
    /\ T >= 3
    /\ C1 = low
    /\ RLess(InitialLow, C1)
    /\ Len(data) = T + 1
(***************************************************************************)
(* ApiClient (lib/api.ts) and the service it calls.                        *)
(***************************************************************************)
\* const API_BASE_URL = process.env.NEXT_PUBLIC_API_URL || 'http://localhost:8000'
API_BASE_URL == "http://localhost:8000"

\* The body optimize() gives to JSON.stringify, lines 77-85.
OptimizeBody(p) ==
    [initial_capital |-> p.initialCapital,
     annual_return |-> p.annualReturn,
     discount_rate |-> p.discountRate,
     risk_aversion |-> p.riskAversion,
     life_expectancy |-> p.lifeExpectancy,
     current_age |-> p.currentAge,
     inheritance_target |-> p.inheritanceTarget]

\* Variant of PreviewBody: the two ages change places.
PreviewBodySwappedAges(p) ==
    [initial_capital |-> p.initialCapital,
     annual_return |-> p.annualReturn,
     discount_rate |-> p.discountRate,
     risk_aversion |-> p.riskAversion,
     life_expectancy |-> p.currentAge,
     current_age |-> p.lifeExpectancy,
     inheritance_target |-> p.inheritanceTarget]

\* The body preview() gives to JSON.stringify, lines 95-103.
PreviewBody(p) ==
    [initial_capital |-> p.initialCapital,
     annual_return |-> p.annualReturn,
     discount_rate |-> p.discountRate,
     risk_aversion |-> p.riskAversion,
     life_expectancy |-> p.lifeExpectancy,
     current_age |-> p.currentAge,
     inheritance_target |-> p.inheritanceTarget]

\* The parameters the service reads from a request body.
ParamsOfBody(b) ==
    [initialCapital |-> b.initial_capital,
     annualReturn |-> b.annual_return,
     discountRate |-> b.discount_rate,
     riskAversion |-> b.risk_aversion,
     lifeExpectancy |-> b.life_expectancy,
     currentAge |-> b.current_age,
     inheritanceTarget |-> b.inheritance_target]

\* The inputs the engine solves without widening its bracket: valid, with
\* terminal(low) >= target >= terminal(high) on the default bracket.
Solvable(p) ==
    /\ Valid(p)
    /\ RLeq(p.inheritanceTarget,
            Simulate(p.initialCapital, RMul(p.initialCapital, LowFraction),
                     GrowthRate(p), p.annualReturn, HorizonOf(p)))
    /\ RLeq(Simulate(p.initialCapital, RMul(p.initialCapital, HighFraction),
                     GrowthRate(p), p.annualReturn, HorizonOf(p)),
            p.inheritanceTarget)

\* What the preview operation answers: sections 4.1-4.4 of the design.
PreviewValue(p) ==
    TheValue({[initial_consumption |-> b[3],
               beta |-> Beta(p),
               growth_rate |-> GrowthRate(p),
               horizon |-> HorizonOf(p)] : b \in {Bisection(p, Iterations)}})

\* What the optimize operation answers: the same solve, then the series.
OptimizeValue(p) ==
    TheValue({[initial_consumption |-> b[3],
               beta |-> Beta(p),
               growth_rate |-> GrowthRate(p),
               horizon |-> HorizonOf(p),
               final_capital |-> Simulate(p.initialCapital, b[3],
                                          GrowthRate(p), p.annualReturn,
                                          HorizonOf(p)),
               series |-> SeriesUpTo(p, b[3], HorizonOf(p))] :
                 b \in {Bisection(p, Iterations)}})

ApiParams ==
    WorkerParams \cup
        {[defaultParams EXCEPT !.currentAge = 45, !.lifeExpectancy = 30]}

\* The statuses and bodies of the answers that are not ok.
ErrorStatuses == {422, 500}

ErrorBodies ==
    {[detail |-> "InfeasibleTarget"], [detail |-> ""], [message |-> "down"]}

\* The answers the service may give to a request: the value of the
\* operation, a body that is not JSON, or an error status with a body.
Answers(req) ==
    (IF req.endpoint = "/api/v1/optimize" /\ Solvable(ParamsOfBody(req.body))
     THEN {[ok |-> TRUE, status |-> 200, parses |-> TRUE,
            json |-> OptimizeValue(ParamsOfBody(req.body))]}
     ELSE {})
    \cup
    (IF req.endpoint = "/api/v1/optimize/preview"
         /\ Solvable(ParamsOfBody(req.body))
     THEN {[ok |-> TRUE, status |-> 200, parses |-> TRUE,
            json |-> PreviewValue(ParamsOfBody(req.body))]}
     ELSE {})
    \cup
    (IF req.endpoint \in {"/api/v1/parameters/defaults", "/health"}
     THEN {[ok |-> TRUE, status |-> 200, parses |-> TRUE,
            json |-> [status |-> "ok"]]}
     ELSE {})
    \cup {[ok |-> TRUE, status |-> 200, parses |-> FALSE, json |-> <<>>]}
    \cup [ok : {FALSE}, status : ErrorStatuses, parses : {TRUE},
          json : ErrorBodies]
    \cup [ok : {FALSE}, status : ErrorStatuses, parses : {FALSE},
          json : {<<>>}]
\* `API error: ${response.status}`: the status as decimal text.
StatusText(n) ==
    CASE n = 422 -> "422"
      [] n = 500 -> "500"
      [] OTHER -> "200"

\* error.detail || ...: the detail is there and is not the empty string.
HasDetail(body) == "detail" \in DOMAIN body /\ body.detail # ""

\* Variant of Thrown: the status is not looked at and the body is returned.
ThrownNever(resp) == FALSE

\* if (!response.ok), line 63.
Thrown(resp) == ~resp.ok

\* request(endpoint, options), lines 49-61: the url, the merged headers and
\* the one call of fetch, up to its await.
Request(endpoint, method, body, p) ==
    /\ apiPc = "idle"
    /\ request' = [url |-> <<API_BASE_URL, endpoint>>, endpoint |-> endpoint,
                   method |-> method, contentType |-> "application/json",
                   body |-> body, args |-> p]
    /\ fetches' = fetches + 1
    /\ response' = NoResponse
    /\ outcome' = NoOutcome
    /\ apiPc' = "fetching"
    /\ UNCHANGED <<received, solver, workers, db, ui>>

\* Lines 74-87.
Optimize(p) == Request("/api/v1/optimize", "POST", OptimizeBody(p), p)

\* Lines 92-105.
Preview(p) ==
    Request("/api/v1/optimize/preview", "POST", PreviewBody(p), p)

\* Lines 110-112.
GetDefaults ==
    Request("/api/v1/parameters/defaults", "GET", <<>>, defaultParams)

\* Lines 117-119.
HealthCheck == Request("/health", "GET", <<>>, defaultParams)

\* The awaited fetch resolves with a response.
FetchResolves ==
    /\ apiPc = "fetching"
    /\ \E a \in Answers(request) : response' = a
    /\ apiPc' = "responded"
    /\ UNCHANGED <<request, fetches, outcome, received, solver, workers, db, ui>>

\* The awaited fetch rejects (no connection): request() rejects with it.
FetchRejects ==
    /\ apiPc = "fetching"
    /\ outcome' = [kind |-> "error", message |-> <<"Failed to fetch">>,
                   value |-> <<>>]
    /\ apiPc' = "settled"
    /\ UNCHANGED <<request, fetches, response, received, solver, workers, db, ui>>

\* What request() ends with, lines 63-68.
Settled(resp) ==
    IF Thrown(resp)
    THEN LET body == IF resp.parses THEN resp.json ELSE <<>>
         IN  [kind |-> "error",
              message |-> IF HasDetail(body)
                          THEN <<body.detail>>
                          ELSE <<"API error: ", StatusText(resp.status)>>,
              value |-> <<>>]
    ELSE IF resp.parses
         THEN [kind |-> "value", message |-> <<>>, value |-> resp.json]
         ELSE [kind |-> "error", message |-> <<"SyntaxError">>,
               value |-> <<>>]

\* The caller's record of the last value each of optimize and preview gave.
Keep(req, out) ==
    LET entry == [args |-> req.args, body |-> req.body, value |-> out.value,
                  any |-> TRUE]
    IN  IF out.kind # "value" THEN received
        ELSE IF req.endpoint = "/api/v1/optimize"
             THEN [received EXCEPT !.optimize = entry]
        ELSE IF req.endpoint = "/api/v1/optimize/preview"
             THEN [received EXCEPT !.preview = entry]
        ELSE received

\* Lines 63-68: the response is looked at and the call ends.
Settle ==
    /\ apiPc = "responded"
    /\ outcome' = Settled(response)
    /\ received' = Keep(request, Settled(response))
    /\ apiPc' = "settled"
    /\ UNCHANGED <<request, fetches, response, solver, workers, db, ui>>

\* The caller has taken the outcome; the client is ready for another call.
Finish ==
    /\ apiPc = "settled"
    /\ apiPc' = "idle"
    /\ request' = NoRequest
    /\ fetches' = 0
    /\ response' = NoResponse
    /\ outcome' = NoOutcome
    /\ UNCHANGED <<received, solver, workers, db, ui>>

ApiNext ==
    \/ \E p \in ApiParams : Optimize(p)
    \/ \E p \in ApiParams : Preview(p)
    \/ GetDefaults
    \/ HealthCheck
    \/ FetchResolves
    \/ FetchRejects
    \/ Settle
    \/ Finish

SpecApi == Init /\ [][ApiNext]_vars

SevenFields ==
    {"initial_capital", "annual_return", "discount_rate", "risk_aversion",
     "life_expectancy", "current_age", "inheritance_target"}

PreviewFields == {"initial_consumption", "beta", "growth_rate", "horizon"}

SameCallBothWays ==
    /\ received.optimize.any
    /\ received.preview.any
    /\ received.optimize.args = received.preview.args

C18_ErrorPropagation ==
    /\ apiPc # "idle" => fetches = 1
    /\ apiPc = "settled"
           => /\ outcome.kind \in {"error", "value"}
              /\ outcome.kind = "error" => outcome.value = <<>>
              /\ response = NoResponse => outcome.kind = "error"
              /\ (response # NoResponse /\ ~response.ok)
                     => /\ outcome.kind = "error"
                        /\ outcome.message =
                               IF response.parses /\ HasDetail(response.json)
                               THEN <<response.json.detail>>
                               ELSE <<"API error: ", StatusText(response.status)>>
              /\ (response.ok /\ ~response.parses) => outcome.kind = "error"
              /\ outcome.kind = "value"
                     => (response.ok /\ outcome.value = response.json)

C18_Witness ==
    /\ apiPc = "settled"
    /\ ~response.ok
    /\ response.status = 500
    /\ response.parses
    /\ ~HasDetail(response.json)
    /\ outcome.message = <<"API error: ", "500">>
    /\ fetches = 1

(***************************************************************************)
(* The tables of the schema: profiles, estimators, optimization_series.    *)
(***************************************************************************)
UserIds == {1, 2}
EstimatorIds == {1, 2}
SeriesIds == 1..MaxSeriesRows
Periods == {0, 1}
SeriesCapitals == {850, 840}

\* The values of one row of an INSERT INTO optimization_series (estimator_id,
\* period, capital, ...): the id is given by the table's default.
SeriesValues ==
    [estimator_id : EstimatorIds, period : Periods, capital : SeriesCapitals]

\* The VALUES lists of the statements: one row, or two rows of one
\* estimator as in the seed (periods 0 and 1, or the same period twice).
SeriesStatements ==
    {<<v>> : v \in SeriesValues}
    \cup {<<[estimator_id |-> e, period |-> 0, capital |-> 850],
            [estimator_id |-> e, period |-> 1, capital |-> 850]>> :
              e \in EstimatorIds}
    \cup {<<[estimator_id |-> e, period |-> 0, capital |-> 850],
            [estimator_id |-> e, period |-> 0, capital |-> 840]>> :
              e \in EstimatorIds}

\* REFERENCES public.estimators(id): the estimator of the row exists.
HasEstimator(v) == \E e \in estimators : e.id = v.estimator_id

\* Variant of Conflicts: only the primary key is looked at.
ConflictsOnIdOnly(table, v) == FALSE

\* UNIQUE(estimator_id, period): a row of the table has the pair of v.  (The
\* primary key never conflicts: uuid_generate_v4() gives an id no row has.)
Conflicts(table, v) ==
    \E row \in table : row.estimator_id = v.estimator_id /\ row.period = v.period

\* id UUID PRIMARY KEY DEFAULT uuid_generate_v4()
NewSeriesId(table) ==
    CHOOSE id \in SeriesIds : \A row \in table : row.id # id

\* The table after rows k..Len(rows) of a statement are offered one after
\* the other, a conflicting row being left out.
RECURSIVE OfferRows(_, _, _)
OfferRows(table, rows, k) ==
    IF k > Len(rows) THEN table
    ELSE IF Conflicts(table, rows[k]) THEN OfferRows(table, rows, k + 1)
    ELSE OfferRows(table \cup {[id |-> NewSeriesId(table),
                                estimator_id |-> rows[k].estimator_id,
                                period |-> rows[k].period,
                                capital |-> rows[k].capital]},
                   rows, k + 1)

\* Some row of the statement meets a row of the table, or an earlier row of
\* the statement, on the pair.
SomeConflict(table, rows) ==
    \/ \E k \in 1..Len(rows) : Conflicts(table, rows[k])
    \/ \E j, k \in 1..Len(rows) :
           j < k /\ Conflicts({rows[j]}, rows[k])

\* INSERT INTO public.profiles ... ON CONFLICT (id) DO NOTHING
InsertProfile(u) ==
    /\ profiles' = profiles \cup {u}
    /\ statement' = NoStatement
    /\ session' = NoSession
    /\ UNCHANGED <<estimators, optimization_series, solver, workers, api, ui>>

\* INSERT INTO public.estimators (user_id, ...): the id is the default, the
\* user_id must be a profile.
InsertEstimator(id, u) ==
    /\ u \in profiles
    /\ \A e \in estimators : e.id # id
    /\ estimators' = estimators \cup {[id |-> id, user_id |-> u]}
    /\ statement' = NoStatement
    /\ session' = NoSession
    /\ UNCHANGED <<profiles, optimization_series, solver, workers, api, ui>>

\* Variant of DeleteEstimator: the rows that reference the estimator stay.
DeleteEstimatorWithoutCascade(id) ==
    /\ \E e \in estimators : e.id = id
    /\ estimators' = {e \in estimators : e.id # id}
    /\ statement' = NoStatement
    /\ session' = NoSession
    /\ UNCHANGED <<profiles, optimization_series, solver, workers, api, ui>>

\* DELETE FROM public.estimators WHERE id = ...: ON DELETE CASCADE takes the
\* rows of optimization_series that reference it.
DeleteEstimator(id) ==
    /\ \E e \in estimators : e.id = id
    /\ estimators' = {e \in estimators : e.id # id}
    /\ optimization_series' =
           {row \in optimization_series : row.estimator_id # id}
    /\ statement' = NoStatement
    /\ session' = NoSession
    /\ UNCHANGED <<profiles, solver, workers, api, ui>>

\* DELETE FROM public.profiles WHERE id = ...: the cascade takes the
\* estimators of the profile and their series.
DeleteProfile(u) ==
    /\ u \in profiles
    /\ profiles' = profiles \ {u}
    /\ estimators' = {e \in estimators : e.user_id # u}
    /\ optimization_series' =
           {row \in optimization_series :
                ~\E e \in estimators : e.id = row.estimator_id /\ e.user_id = u}
    /\ statement' = NoStatement
    /\ session' = NoSession
    /\ UNCHANGED <<solver, workers, api, ui>>

\* INSERT INTO public.optimization_series (...) VALUES rows [ON CONFLICT DO
\* NOTHING]: a row without its estimator, or (without ON CONFLICT) a row
\* that meets the unique constraint, fails the statement as a whole.
InsertSeries(rows, doNothing) ==
    /\ Cardinality(optimization_series) + Len(rows) <= MaxSeriesRows
    /\ LET result ==
               IF \E k \in 1..Len(rows) : ~HasEstimator(rows[k])
               THEN "foreign_key_violation"
               ELSE IF ~doNothing /\ SomeConflict(optimization_series, rows)
               THEN "unique_violation"
               ELSE "insert"
       IN  /\ statement' = [rows |-> rows, doNothing |-> doNothing,
                            result |-> result]
           /\ optimization_series' =
                  IF result = "insert"
                  THEN OfferRows(optimization_series, rows, 1)
                  ELSE optimization_series
    /\ session' = NoSession
    /\ UNCHANGED <<profiles, estimators, solver, workers, api, ui>>

\* DELETE FROM public.optimization_series WHERE id = ...
DeleteSeries(id) ==
    /\ \E row \in optimization_series : row.id = id
    /\ optimization_series' = {row \in optimization_series : row.id # id}
    /\ statement' = NoStatement
    /\ session' = NoSession
    /\ UNCHANGED <<profiles, estimators, solver, workers, api, ui>>

DbNext ==
    \/ \E u \in UserIds : InsertProfile(u)
    \/ \E id \in EstimatorIds, u \in UserIds : InsertEstimator(id, u)
    \/ \E id \in EstimatorIds : DeleteEstimator(id)
    \/ \E u \in UserIds : DeleteProfile(u)
    \/ \E rows \in SeriesStatements, doNothing \in BOOLEAN :
           InsertSeries(rows, doNothing)
    \/ \E id \in SeriesIds : DeleteSeries(id)

SpecDb == Init /\ [][DbNext]_vars

\* The rows of the table with the pair of v.
RowsOfPair(table, v) ==
    {row \in table : row.estimator_id = v.estimator_id /\ row.period = v.period}

\* C19: no two rows of optimization_series share (estimator_id, period), and
\* an insert of one row whose pair a row of the table already has adds no
\* row and leaves the table as it was; a statement of several rows never
\* changes or adds a row on a pair the table already had.
C19_SeriesRowUniqueness ==
    /\ [](\A row1, row2 \in optimization_series :
              (row1.estimator_id = row2.estimator_id /\ row1.period = row2.period)
                  => row1 = row2)
    /\ [][(statement'.result # "none" /\ Len(statement'.rows) = 1
             /\ Conflicts(optimization_series, statement'.rows[1]))
          => optimization_series' = optimization_series]_vars
    /\ [][statement'.result # "none"
          => \A k \in 1..Len(statement'.rows) :
                 Conflicts(optimization_series, statement'.rows[k])
                     => RowsOfPair(optimization_series', statement'.rows[k])
                            = RowsOfPair(optimization_series,
                                         statement'.rows[k])]_vars

C19_Witness ==
    /\ statement.result = "insert"
    /\ statement.doNothing
    /\ statement.rows = <<[estimator_id |-> 1, period |-> 0, capital |-> 840]>>
    /\ \E row \in optimization_series :
           row.estimator_id = 1 /\ row.period = 0 /\ row.capital = 850
    /\ Cardinality(optimization_series) = 2

\* The ids of a set of estimators rows.
IdsOf(rows) == {e.id : e \in rows}

\* C30: every optimization_series row refers to an existing estimators row
\* and every estimators row to an existing profiles row; a step that
\* deletes estimators removes exactly the series rows that referred to
\* them, and a step that deletes profiles removes exactly their estimators
\* (and so their series).
C30_ReferentialIntegrity ==
    /\ [](/\ \A row \in optimization_series :
                  row.estimator_id \in IdsOf(estimators)
           /\ \A e \in estimators : e.user_id \in profiles)
    /\ [][IdsOf(estimators') # IdsOf(estimators) /\ estimators' \subseteq estimators
            => optimization_series' =
                   {row \in optimization_series :
                        row.estimator_id \in IdsOf(estimators')}]_vars
    /\ [][profiles' # profiles /\ profiles' \subseteq profiles
            => estimators' = {e \in estimators : e.user_id \in profiles'}]_vars

C30_Witness ==
    /\ profiles = {2}
    /\ IdsOf(estimators) = {2}
    /\ Cardinality(optimization_series) = 1
    /\ \E row \in optimization_series : row.id = 3 /\ row.estimator_id = 2
    /\ statement = NoStatement

(***************************************************************************)
(* Requests authenticated as a user, under the row level security policies. *)
(***************************************************************************)
\* USING (auth.uid() = user_id), on estimators.
EstimatorPolicy(uid, e) == uid = e.user_id

\* Variant of SeriesPolicy: any estimator will do.
SeriesPolicyAnyEstimator(uid, row) == row.estimator_id \in IdsOf(estimators)

\* USING / WITH CHECK (estimator_id IN (SELECT id FROM estimators WHERE
\* user_id = auth.uid())), on optimization_series.
SeriesPolicy(uid, row) ==
    row.estimator_id \in IdsOf({e \in estimators : EstimatorPolicy(uid, e)})

\* The request of the step: who asks, what, and the rows a select returns.
Asked(uid, op, rows) ==
    /\ session' = [uid |-> uid, op |-> op, returned |-> rows]
    /\ statement' = NoStatement
    /\ UNCHANGED <<solver, workers, api, ui>>

\* SELECT * FROM estimators
SelectEstimators(uid) ==
    /\ Asked(uid, "select estimators",
             {e \in estimators : EstimatorPolicy(uid, e)})
    /\ UNCHANGED <<profiles, estimators, optimization_series>>

\* INSERT INTO estimators (id, user_id, ...): the new row must pass the
\* check of the policy and reference a profile.
InsertEstimatorAs(uid, id, u) ==
    /\ id \notin IdsOf(estimators)
    /\ Asked(uid, "insert estimators", {})
    /\ estimators' =
           IF EstimatorPolicy(uid, [id |-> id, user_id |-> u]) /\ u \in profiles
           THEN estimators \cup {[id |-> id, user_id |-> u]}
           ELSE estimators
    /\ UNCHANGED <<profiles, optimization_series>>

\* UPDATE estimators SET user_id = u WHERE id = ...: the rows the policy
\* lets the user see are updated, and the new row must pass it too.
UpdateEstimatorAs(uid, id, u) ==
    /\ Asked(uid, "update estimators", {})
    /\ estimators' =
           IF /\ \E e \in estimators : e.id = id /\ EstimatorPolicy(uid, e)
              /\ EstimatorPolicy(uid, [id |-> id, user_id |-> u])
              /\ u \in profiles
           THEN {e \in estimators : e.id # id} \cup {[id |-> id, user_id |-> u]}
           ELSE estimators
    /\ UNCHANGED <<profiles, optimization_series>>

\* DELETE FROM estimators WHERE id = ...: the rows the policy lets the user
\* see are deleted, and the cascade takes their series.
DeleteEstimatorAs(uid, id) ==
    /\ Asked(uid, "delete estimators", {})
    /\ LET gone == {e \in estimators : e.id = id /\ EstimatorPolicy(uid, e)}
       IN  /\ estimators' = estimators \ gone
           /\ optimization_series' =
                  {row \in optimization_series :
                       row.estimator_id \notin IdsOf(gone)}
    /\ UNCHANGED profiles

\* SELECT * FROM optimization_series
SelectSeries(uid) ==
    /\ Asked(uid, "select optimization_series",
             {row \in optimization_series : SeriesPolicy(uid, row)})
    /\ UNCHANGED <<profiles, estimators, optimization_series>>

\* INSERT INTO optimization_series (estimator_id, period, capital, ...)
InsertSeriesAs(uid, v) ==
    /\ Cardinality(optimization_series) < MaxSeriesRows
    /\ Asked(uid, "insert optimization_series", {})
    /\ optimization_series' =
           IF /\ SeriesPolicy(uid, v)
              /\ HasEstimator(v)
              /\ ~Conflicts(optimization_series, v)
           THEN OfferRows(optimization_series, <<v>>, 1)
           ELSE optimization_series
    /\ UNCHANGED <<profiles, estimators>>

\* DELETE FROM optimization_series WHERE id = ...
DeleteSeriesAs(uid, id) ==
    /\ Asked(uid, "delete optimization_series", {})
    /\ optimization_series' =
           {row \in optimization_series :
                ~(row.id = id /\ SeriesPolicy(uid, row))}
    /\ UNCHANGED <<profiles, estimators>>

RlsNext ==
    \/ \E u \in UserIds : InsertProfile(u)
    \/ \E uid \in UserIds : SelectEstimators(uid)
    \/ \E uid \in UserIds, id \in EstimatorIds, u \in UserIds :
           InsertEstimatorAs(uid, id, u)
    \/ \E uid \in UserIds, id \in EstimatorIds, u \in UserIds :
           UpdateEstimatorAs(uid, id, u)
    \/ \E uid \in UserIds, id \in EstimatorIds : DeleteEstimatorAs(uid, id)
    \/ \E uid \in UserIds : SelectSeries(uid)
    \/ \E uid \in UserIds, v \in SeriesValues : InsertSeriesAs(uid, v)
    \/ \E uid \in UserIds, id \in SeriesIds : DeleteSeriesAs(uid, id)

SpecRls == Init /\ [][RlsNext]_vars

\* The rows of user w: its estimators, and the series that refer to them.
EstimatorsOf(w) == {e \in estimators : e.user_id = w}

SeriesOfUser(w) ==
    {row \in optimization_series : row.estimator_id \in IdsOf(EstimatorsOf(w))}

\* C29: a select of a request authenticated as u returns the rows of u and
\* nothing else, whatever the rows of the other users are, and no request authenticated as u adds, changes or removes an estimators or
\* optimization_series row of another user.
C29_RowLevelIsolation ==
    /\ [](session.op = "select estimators"
             => session.returned = EstimatorsOf(session.uid))
    /\ [](session.op = "select optimization_series"
             => session.returned = SeriesOfUser(session.uid))
    /\ [][session'.uid # 0
            => \A w \in UserIds \ {session'.uid} :
                   /\ EstimatorsOf(w)' = EstimatorsOf(w)
                   /\ SeriesOfUser(w)' = SeriesOfUser(w)]_vars

C29_Witness ==
    /\ session.uid = 1
    /\ session.op = "select optimization_series"
    /\ Cardinality(session.returned) = 1
    /\ Cardinality(SeriesOfUser(2)) = 2
    /\ Cardinality(optimization_series) = 3

(***************************************************************************)
(* ParametersControl (components/ui/progress.tsx) inside DashboardPage.    *)
(***************************************************************************)
\* The positions of the three sliders the model moves.  currentAge: min 20,
\* max 80, step 1; lifeExpectancy: max 100, step 1; inheritanceTarget: min 0.
CurrentAgeStops == {35, 50, 80}
LifeExpectancyStops == {45, 85}
InheritanceTargetStops == {Rat(0), Rat(60)}

\* min={20} max={80} of the currentAge slider.
CurrentAgeRange(p) == 20..80

\* min={localParams.currentAge + 10} max={100} of the lifeExpectancy slider.
LifeExpectancyRange(p) == (p.currentAge + 10)..100

\* JSON.stringify(params): the values in the order of the keys, which the
\* spread of handleChange keeps.
Stringify(p) ==
    <<p.initialCapital, p.annualReturn, p.discountRate, p.riskAversion,
      p.lifeExpectancy, p.currentAge, p.inheritanceTarget>>

\* Variant of HandleChange: the timer that is waiting is not cleared.
HandleChangeKeepsTimer(key, value) ==
    /\ ~effectDue
    /\ localParams[key] # value
    /\ localParams' = [localParams EXCEPT ![key] = value]
    /\ debounceTimer' =
           IF debounceTimer.pending THEN debounceTimer
           ELSE [pending |-> TRUE,
                 value |-> [localParams EXCEPT ![key] = value],
                 left |-> DebounceDelay]
    /\ stableFor' = 0
    /\ UNCHANGED <<debouncedValue, effectDue, page, solver, workers, api, db>>

\* handleChange(key, value), lines 100-102, and the render that follows: the
\* debounce effect clears its timer and starts one for the new value.
HandleChange(key, value) ==
    /\ ~effectDue
    /\ localParams[key] # value
    /\ localParams' = [localParams EXCEPT ![key] = value]
    /\ debounceTimer' = [pending |-> TRUE,
                         value |-> [localParams EXCEPT ![key] = value],
                         left |-> DebounceDelay]
    /\ stableFor' = 0
    /\ UNCHANGED <<debouncedValue, effectDue, page, solver, workers, api, db>>

\* The currentAge slider, lines 166-174.
ChangeCurrentAge(v) ==
    /\ v \in CurrentAgeRange(localParams)
    /\ HandleChange("currentAge", v)

\* The lifeExpectancy slider, lines 176-184.
ChangeLifeExpectancy(v) ==
    /\ v \in LifeExpectancyRange(localParams)
    /\ HandleChange("lifeExpectancy", v)

\* The inheritanceTarget slider, lines 186-194.
ChangeInheritanceTarget(v) == HandleChange("inheritanceTarget", v)

\* The timers that wait, of the control and of the page.
Waiting ==
    {tm \in {debounceTimer} : tm.pending} \cup {timers[k] : k \in 1..Len(timers)}

\* The page's timers after d milliseconds.
Later(d) == [k \in 1..Len(timers) |-> [timers[k] EXCEPT !.left = @ - d]]

\* Time passes by the shorter delay while no timer is due.
Tick ==
    /\ ~effectDue
    /\ Waiting # {}
    /\ \A tm \in Waiting : tm.left > 0
    /\ debounceTimer' =
           IF debounceTimer.pending
           THEN [debounceTimer EXCEPT !.left = @ - TimerDelay]
           ELSE debounceTimer
    /\ timers' = Later(TimerDelay)
    /\ stableFor' = IF stableFor < DebounceDelay THEN stableFor + TimerDelay
                    ELSE stableFor
    /\ UNCHANGED <<localParams, debouncedValue, effectDue, pageParams,
                   isLoading, optimizationData, solver, workers, api, db>>

\* The debounce timer fires (lines 74-76): setDebouncedValue(value); the
\* render that follows leaves the effect of lines 94-98 to run.
DebounceFires ==
    /\ ~effectDue
    /\ debounceTimer.pending
    /\ debounceTimer.left = 0
    /\ debouncedValue' = debounceTimer.value
    /\ debounceTimer' = NoTimer
    /\ effectDue' = TRUE
    /\ UNCHANGED <<localParams, stableFor, page, solver, workers, api, db>>

\* The number a new call gets: one more than the newest call that waits,
\* counted from the call whose data is shown.
NextCall ==
    LET waiting == {timers[k].call : k \in 1..Len(timers)} \cup {0}
    IN  1 + CHOOSE n \in waiting : \A m \in waiting : m <= n

\* Variant of HandleParamsChange: the page keeps the params it has.
HandleParamsChangeKeepsParams(newParams) ==
    /\ Len(timers) < MaxTimers
    /\ isLoading' = TRUE
    /\ pageParams' = pageParams
    /\ timers' = Append(timers, [value |-> newParams, left |-> TimerDelay,
                                 call |-> NextCall])
    /\ UNCHANGED optimizationData

\* handleParamsChange(newParams), part_000 757-766: setIsLoading(true),
\* setParams(newParams) and a timer of 100 ms that holds newParams.
HandleParamsChange(newParams) ==
    /\ Len(timers) < MaxTimers
    /\ isLoading' = TRUE
    /\ pageParams' = newParams
    /\ timers' = Append(timers, [value |-> newParams, left |-> TimerDelay,
                                 call |-> NextCall])
    /\ UNCHANGED optimizationData

\* The effect of lines 94-98: the two texts are compared and onParamsChange,
\* which is handleParamsChange of the page, is called when they differ; the
\* params it sets are a dependency of the effect, which then runs again.
RunEffect ==
    /\ effectDue
    /\ IF Stringify(debouncedValue) # Stringify(pageParams)
       THEN HandleParamsChange(debouncedValue) /\ effectDue' = TRUE
       ELSE effectDue' = FALSE /\ UNCHANGED page
    /\ UNCHANGED <<localParams, debouncedValue, debounceTimer, stableFor,
                   solver, workers, api, db>>

\* Variant of TimerFires: the newest timer of the page fires first.
TimerFiresNewestFirst ==
    /\ ~effectDue
    /\ timers # <<>>
    /\ timers[Len(timers)].left = 0
    /\ optimizationData' = Computed(timers[Len(timers)].value)
    /\ isLoading' = FALSE
    /\ timers' = [k \in 1..(Len(timers) - 1) |->
                     [timers[k] EXCEPT !.call = @ - timers[Len(timers)].call]]
    /\ UNCHANGED <<control, pageParams, solver, workers, api, db>>

\* The oldest 100 ms timer of the page fires, part_000 762-765: its data are
\* shown and the calls that wait are counted from it.
TimerFires ==
    /\ ~effectDue
    /\ timers # <<>>
    /\ Head(timers).left = 0
    /\ optimizationData' = Computed(Head(timers).value)
    /\ isLoading' = FALSE
    /\ timers' = [k \in 1..(Len(timers) - 1) |->
                     [timers[k + 1] EXCEPT !.call = @ - Head(timers).call]]
    /\ UNCHANGED <<control, pageParams, solver, workers, api, db>>

UiNext ==
    \/ \E v \in CurrentAgeStops : ChangeCurrentAge(v)
    \/ \E v \in LifeExpectancyStops : ChangeLifeExpectancy(v)
    \/ \E v \in InheritanceTargetStops : ChangeInheritanceTarget(v)
    \/ Tick
    \/ DebounceFires
    \/ RunEffect
    \/ TimerFires

SpecUi == Init /\ [][UiNext]_vars

\* The params the page's handler is called with when its callers are left
\* open.
PageCalls == WorkerParams

\* handleParamsChange called by whoever holds the callback.
CallHandleParamsChange(p) ==
    /\ HandleParamsChange(p)
    /\ UNCHANGED <<control, solver, workers, api, db>>

\* Time passes for the page's timers while none of them is due.
PageTick ==
    /\ timers # <<>>
    /\ \A k \in 1..Len(timers) : timers[k].left > 0
    /\ timers' = Later(TimerDelay)
    /\ UNCHANGED <<control, pageParams, isLoading, optimizationData, solver,
                   workers, api, db>>

PageNext ==
    \/ \E p \in PageCalls : CallHandleParamsChange(p)
    \/ PageTick
    \/ TimerFires

SpecPage == Init /\ [][PageNext]_vars

\* The data shown are what generateOptimizationData returns for p.
ShowsDataOf(p) ==
    \/ optimizationData.from = p
    \/ SeriesOf(optimizationData) = Solve(p).data

C26_LatestParamsWin ==
    /\ timers = <<>> => (ShowsDataOf(pageParams) /\ ~isLoading)
    /\ \A k \in 1..Len(timers) : timers[k].call > 0
    /\ timers # <<>> => timers[Len(timers)].value = pageParams

C26_Witness ==
    /\ Len(timers) = 1
    /\ timers[1].left = 0
    /\ ~isLoading
    /\ optimizationData.from \in PageCalls
    /\ optimizationData.from # pageParams
    /\ ~ShowsDataOf(pageParams)

\* onParamsChange is called in this step, and what it is called with.
Notifies == Len(timers') > Len(timers)

Notified == timers'[Len(timers')].value

\* C27: onParamsChange is called only with the parameter set localParams
\* has been for the full 300 ms, and never with a value equal to the params
\* the control holds as its prop.
C27_DebouncedNotification ==
    [][Notifies => /\ Notified = localParams
                   /\ stableFor = DebounceDelay
                   /\ Stringify(Notified) # Stringify(pageParams)]_vars

C27_Witness ==
    /\ effectDue
    /\ Len(timers) = 1
    /\ timers[1].left = TimerDelay
    /\ timers[1].value = localParams
    /\ localParams.currentAge = 80
    /\ localParams.lifeExpectancy = 45
    /\ optimizationData.from = defaultParams

\* The timers fire when they are due and the effect runs after its render.
FairSpecUi ==
    /\ SpecUi
    /\ WF_vars(Tick)
    /\ WF_vars(DebounceFires)
    /\ WF_vars(RunEffect)
    /\ WF_vars(TimerFires)

\* C28: if the slider changes stop, then eventually the params of the page
\* equal localParams for good and onParamsChange is not called any more.
C28_Quiescence ==
    <>[][localParams' = localParams]_vars
        => /\ <>[](pageParams = localParams /\ ~effectDue)
           /\ <>[][~Notifies]_vars

C28_Witness ==
    /\ pageParams = localParams
    /\ pageParams # defaultParams
    /\ ~effectDue
    /\ ~debounceTimer.pending
    /\ timers = <<>>
    /\ optimizationData.from = pageParams

\* The horizon generateOptimizationData works with is positive.
AgesInOrder(p) == p.lifeExpectancy > p.currentAge /\ HorizonOf(p) > 0

\* C20: every parameter set passed to onParamsChange (it becomes the params
\* of the page and the argument of a 100 ms timer) and then to
\* generateOptimizationData has life expectancy above the current age.
C20_AgeInvariant ==
    /\ AgesInOrder(pageParams)
    /\ \A k \in 1..Len(timers) : AgesInOrder(timers[k].value)
    /\ AgesInOrder(optimizationData.from)
====
